---------------------------- MODULE Spec2Model ----------------------------
(***************************************************************************)
(* A model of QTikzPicture (dhaumann/qtikzpicture): the emitter that       *)
(* writes PGF/TikZ markup to a QTextStream, its colour registry and its    *)
(* QPainterPath-to-TikZ path compiler.                                     *)
(*                                                                         *)
(* Text is modelled by TLA+ strings built with \o exactly as the code      *)
(* builds its QStrings.  A real number is modelled by an integer number of *)
(* tenths (15 stands for 1.5), a colour channel by an integer 0..255.      *)
(* A stream's content is the sequence of the texts written to it, one per  *)
(* call that wrote.                                                        *)
(***************************************************************************)
EXTENDS Integers, Sequences, FiniteSets, TLC

VARIABLES
    ts,           \* QTikzPicturePrivate::ts, the sink: NULL or a stream
    colors,       \* QTikzPicturePrivate::colors, the keys of the QHash
    precision,    \* QTikzPicturePrivate::precision
    out,          \* the text each QTextStream, and Qt's message log, has received
    rnPrecision,  \* each QTextStream's realNumberPrecision
    rnNotation,   \* each QTextStream's realNumberNotation
    fault,        \* TRUE once a call has written through a null ts
    call,         \* the last call on the emitter: number, arguments, result, ts it found
    log,          \* the calls made so far, under the specifications that keep them
    compiler      \* one run of toTikzPath(const QPainterPath&): input, loop state, result

vars == <<ts, colors, precision, out, rnPrecision, rnNotation, fault, call, log, compiler>>

NULL == "NULL"
Streams == {"A", "B"}
\* where qWarning() puts its messages
MessageLog == "qWarning"

-----------------------------------------------------------------------------
(* Bounds of the model. *)

\* calls on one emitter under Spec (the whole API)
MaxCalls == 3
\* calls on one emitter under SpecColor (setStream, registerColor, a drawing command)
MaxColorCalls == 4
\* calls on one emitter under SpecNames (setStream, registerColor)
MaxNameCalls == 2
\* elements of a QPainterPath under SpecPath
MaxPathLen == 5
\* calls on one emitter under SpecPath, after the compilation
MaxPathCalls == 2
\* calls on one emitter under SpecClip (setStream, clip)
MaxClipCalls == 3
\* calls on one emitter under SpecShapes (setStream, circles, polylines)
MaxShapeCalls == 2
\* elements of a QPainterPath under SpecCurve
MaxCurveLen == 4

-----------------------------------------------------------------------------
(* Numbers and their formatting. *)

Abs(n) == IF n < 0 THEN 0 - n ELSE n

RECURSIVE Pow10(_)
Pow10(p) == IF p <= 0 THEN 1 ELSE 10 * Pow10(p - 1)

\* the decimal digits of n, zero-padded on the left to width w
RECURSIVE ZeroPad(_, _)
ZeroPad(n, w) == IF w <= 0 THEN "" ELSE ZeroPad(n \div 10, w - 1) \o ToString(n % 10)

\* QTextStream << double under FixedNotation with realNumberPrecision p:
\* the value num/den with exactly p fractional digits
FormatFixed(num, den, p) ==
    LET scaled == (2 * Abs(num) * Pow10(p) + den) \div (2 * den)
        ip == scaled \div Pow10(p)
        fp == scaled % Pow10(p)
    IN  (IF num < 0 THEN "-" ELSE "")
        \o ToString(ip)
        \o (IF p > 0 THEN "." \o ZeroPad(fp, p) ELSE "")

\* QLocale::c().toString(double, 'g', prec) of v tenths, |v| < 100:
\* prec significant digits (0 counts as 1), trailing zeros dropped
FormatG(v, prec) ==
    LET a == Abs(v)
        ip == a \div 10
        t == a % 10
        sign == IF v < 0 THEN "-" ELSE ""
        sig == IF prec <= 0 THEN 1 ELSE prec
        r == IF t >= 5 THEN ip + 1 ELSE ip
    IN  IF t = 0 THEN sign \o ToString(ip)
        ELSE IF ip = 0 \/ sig >= 2 THEN sign \o ToString(ip) \o "." \o ToString(t)
        ELSE IF r >= 10 THEN sign \o "1e+01"
        ELSE sign \o ToString(r)


-----------------------------------------------------------------------------
(* Text helpers. *)

\* QStringList::join / concatenation of the characters of a QString
RECURSIVE Join(_, _)
Join(list, sep) ==
    IF Len(list) = 0 THEN ""
    ELSE IF Len(list) = 1 THEN list[1]
    ELSE list[1] \o sep \o Join(Tail(list), sep)

\* QString::replace(before, after, Qt::CaseInsensitive) on a text held as its
\* sequence of characters; before is a digit, which has one case only
Replace(chars, before, after) ==
    [i \in DOMAIN chars |-> IF chars[i] = before THEN after ELSE chars[i]]

-----------------------------------------------------------------------------
(* QColor. *)

QColor(r, g, b, a) == [r |-> r, g |-> g, b |-> b, a |-> a]

\* QColor(Qt::GlobalColor) of the eight colours registerColor tests for
BasicColors ==
    [red     |-> QColor(255, 0, 0, 255),
     green   |-> QColor(0, 255, 0, 255),
     blue    |-> QColor(0, 0, 255, 255),
     black   |-> QColor(0, 0, 0, 255),
     white   |-> QColor(255, 255, 255, 255),
     cyan    |-> QColor(0, 255, 255, 255),
     magenta |-> QColor(255, 0, 255, 255),
     yellow  |-> QColor(255, 255, 0, 255)]

BasicNames == <<"red", "green", "blue", "black", "white", "cyan", "magenta", "yellow">>

HexDigits == <<"0", "1", "2", "3", "4", "5", "6", "7", "8", "9", "a", "b", "c", "d", "e", "f">>

\* a name without the leading zero of a channel below 16
ColorName_no_padding(color) ==
    <<"#">>
    \o (IF color.r < 16 THEN <<>> ELSE <<HexDigits[(color.r \div 16) + 1]>>)
    \o <<HexDigits[(color.r % 16) + 1]>>
    \o (IF color.g < 16 THEN <<>> ELSE <<HexDigits[(color.g \div 16) + 1]>>)
    \o <<HexDigits[(color.g % 16) + 1]>>
    \o (IF color.b < 16 THEN <<>> ELSE <<HexDigits[(color.b \div 16) + 1]>>)
    \o <<HexDigits[(color.b % 16) + 1]>>

\* QColor::name(): '#' and two lower-case hex digits per channel, as characters
ColorName(color) ==
    <<"#",
      HexDigits[(color.r \div 16) + 1], HexDigits[(color.r % 16) + 1],
      HexDigits[(color.g \div 16) + 1], HexDigits[(color.g % 16) + 1],
      HexDigits[(color.b \div 16) + 1], HexDigits[(color.b % 16) + 1]>>

\* the first basic colour, in the order of the if-chain, that color equals; 0 if none
BasicIndex(color) ==
    IF \E i \in 1..Len(BasicNames) : color = BasicColors[BasicNames[i]]
    THEN CHOOSE i \in 1..Len(BasicNames) :
            /\ color = BasicColors[BasicNames[i]]
            /\ \A j \in 1..(i - 1) : color # BasicColors[BasicNames[j]]
    ELSE 0

\* TranslitName with "1" replaced by "q", the letter of "0"
TranslitName_typo(color) ==
    LET n0 == ColorName(color)
        n1 == IF Len(n0) > 0 /\ n0[1] = "#" THEN Tail(n0) ELSE n0
        q0 == Replace(n1, "0", "q")
        q1 == Replace(q0, "1", "q")
        q2 == Replace(q1, "2", "s")
        q3 == Replace(q2, "3", "t")
        q4 == Replace(q3, "4", "u")
        q5 == Replace(q4, "5", "v")
        q6 == Replace(q5, "6", "w")
        q7 == Replace(q6, "7", "x")
        q8 == Replace(q7, "8", "y")
        q9 == Replace(q8, "9", "z")
    IN  "c" \o Join(q9, "")

\* the digit-free name registerColor derives from QColor::name()
TranslitName(color) ==
    LET n0 == ColorName(color)
        n1 == IF Len(n0) > 0 /\ n0[1] = "#" THEN Tail(n0) ELSE n0
        q0 == Replace(n1, "0", "q")
        q1 == Replace(q0, "1", "r")
        q2 == Replace(q1, "2", "s")
        q3 == Replace(q2, "3", "t")
        q4 == Replace(q3, "4", "u")
        q5 == Replace(q4, "5", "v")
        q6 == Replace(q5, "6", "w")
        q7 == Replace(q6, "7", "x")
        q8 == Replace(q7, "8", "y")
        q9 == Replace(q8, "9", "z")
    IN  "c" \o Join(q9, "")

\* what registerColor returns for color
registerColor_name(color) ==
    IF BasicIndex(color) # 0 THEN BasicNames[BasicIndex(color)] ELSE TranslitName(color)

\* the \definecolor line, its channels written by the stream at precision p
DefineColorText(name, color, p) ==
    "\\definecolor{" \o name \o "}{rgb}{"
        \o FormatFixed(color.r, 255, p) \o ", "
        \o FormatFixed(color.g, 255, p) \o ", "
        \o FormatFixed(color.b, 255, p) \o "}\n"

-----------------------------------------------------------------------------
(* Geometry: QPointF, QPainterPath::Element, QPainterPath, QRectF. *)

QPointF(x, y) == [x |-> x, y |-> y]

ElementTypes == {"MoveToElement", "LineToElement", "CurveToElement", "CurveToDataElement"}

Element(type, pt) == [type |-> type, x |-> pt.x, y |-> pt.y]

\* QPainterPath::isEmpty(): no element, or a lone MoveTo
PathIsEmpty(path) ==
    Len(path) = 0 \/ (Len(path) = 1 /\ path[1].type = "MoveToElement")

\* the element sequences a QPainterPath can hold: it starts with a MoveTo, a
\* moveTo() after a MoveTo overwrites it, and cubicTo() appends a CurveTo and
\* its two CurveToData together
WellFormedPath(path) ==
    /\ Len(path) > 0 => path[1].type = "MoveToElement"
    /\ \A i \in 1..Len(path) :
        /\ (path[i].type = "MoveToElement" /\ i > 1) => path[i - 1].type # "MoveToElement"
        /\ path[i].type = "CurveToElement" =>
              /\ i + 2 <= Len(path)
              /\ path[i + 1].type = "CurveToDataElement"
              /\ path[i + 2].type = "CurveToDataElement"
        /\ path[i].type = "CurveToDataElement" =>
              \/ i > 1 /\ path[i - 1].type = "CurveToElement"
              \/ i > 2 /\ path[i - 1].type = "CurveToDataElement"
                       /\ path[i - 2].type = "CurveToElement"

QRectF(x, y, w, h) == [x |-> x, y |-> y, w |-> w, h |-> h]

\* isNull() in the place of isEmpty(): width and height both zero
RectIsEmpty_isNull(rect) == rect.w = 0 /\ rect.h = 0

\* QRectF::isEmpty()
RectIsEmpty(rect) == rect.w <= 0 \/ rect.h <= 0

RectTopLeft(rect) == QPointF(rect.x, rect.y)

RectBottomRight(rect) == QPointF(rect.x + rect.w, rect.y + rect.h)

-----------------------------------------------------------------------------
(* QTikzPicturePrivate of qtikzpicture.cpp: the path compiler. *)

toCoord(pt) == "(" \o FormatG(pt.x, 6) \o ", " \o FormatG(pt.y, 6) \o ")"

\* the locals of toTikzPath(const QPainterPath&) before the loop
PathLoopInit == [pathList |-> <<>>, currentPath |-> "", currentControlPoint |-> 0]

\* the switch with a MoveToElement case that indents every sub-path
PathLoopStep_indent_always(st, element, coord) ==
    CASE element.type = "MoveToElement" ->
            LET closed == st.currentPath # ""
                list == IF closed
                        THEN Append(st.pathList, st.currentPath \o " -- cycle")
                        ELSE st.pathList
            IN  [st EXCEPT !.pathList = list,
                           !.currentPath = "    " \o coord]
      [] element.type = "LineToElement" ->
            [st EXCEPT !.currentPath = @ \o " -- " \o coord]
      [] element.type = "CurveToElement" ->
            [st EXCEPT !.currentPath = @ \o " .. controls " \o coord,
                       !.currentControlPoint = 1]
      [] element.type = "CurveToDataElement" ->
            IF st.currentControlPoint = 1
            THEN [st EXCEPT !.currentPath = @ \o " and " \o coord,
                            !.currentControlPoint = 2]
            ELSE IF st.currentControlPoint = 2
            THEN [st EXCEPT !.currentPath = @ \o " .. " \o coord,
                            !.currentControlPoint = 0]
            ELSE st

\* the switch with a CurveToDataElement case that does not look at
\* currentControlPoint
PathLoopStep_data_unguarded(st, element, coord) ==
    CASE element.type = "MoveToElement" ->
            LET closed == st.currentPath # ""
                list == IF closed
                        THEN Append(st.pathList, st.currentPath \o " -- cycle")
                        ELSE st.pathList
                indentString == IF Len(list) # 0 THEN "    " ELSE ""
            IN  [st EXCEPT !.pathList = list,
                           !.currentPath = indentString \o coord]
      [] element.type = "LineToElement" ->
            [st EXCEPT !.currentPath = @ \o " -- " \o coord]
      [] element.type = "CurveToElement" ->
            [st EXCEPT !.currentPath = @ \o " .. controls " \o coord,
                       !.currentControlPoint = 1]
      [] element.type = "CurveToDataElement" ->
            IF st.currentControlPoint = 2
            THEN [st EXCEPT !.currentPath = @ \o " .. " \o coord,
                            !.currentControlPoint = 0]
            ELSE [st EXCEPT !.currentPath = @ \o " and " \o coord,
                            !.currentControlPoint = 2]

\* one iteration of the loop of toTikzPath(const QPainterPath&): the switch on
\* the element's type, with coord the toCoord(element) of the class
PathLoopStep(st, element, coord) ==
    CASE element.type = "MoveToElement" ->
            LET closed == st.currentPath # ""
                list == IF closed
                        THEN Append(st.pathList, st.currentPath \o " -- cycle")
                        ELSE st.pathList
                indentString == IF Len(list) # 0 THEN "    " ELSE ""
            IN  [st EXCEPT !.pathList = list,
                           !.currentPath = indentString \o coord]
      [] element.type = "LineToElement" ->
            [st EXCEPT !.currentPath = @ \o " -- " \o coord]
      [] element.type = "CurveToElement" ->
            [st EXCEPT !.currentPath = @ \o " .. controls " \o coord,
                       !.currentControlPoint = 1]
      [] element.type = "CurveToDataElement" ->
            IF st.currentControlPoint = 1
            THEN [st EXCEPT !.currentPath = @ \o " and " \o coord,
                            !.currentControlPoint = 2]
            ELSE IF st.currentControlPoint = 2
            THEN [st EXCEPT !.currentPath = @ \o " .. " \o coord,
                            !.currentControlPoint = 0]
            ELSE st

\* the locals after the first n elements
PathLoopAfter(path, coords, n) ==
    LET f[i \in 0..n] ==
            IF i = 0 THEN PathLoopInit ELSE PathLoopStep(f[i - 1], path[i], coords[i])
    IN  f[n]

\* what toTikzPath returns once the loop is over: the joined list
PathLoopResult(st) == Join(st.pathList, "\n")

toTikzPath_QPainterPath(path) ==
    IF PathIsEmpty(path) THEN ""
    ELSE PathLoopResult(PathLoopAfter(path, [i \in DOMAIN path |-> toCoord(path[i])], Len(path)))

toTikzPath_QRectF(rect) ==
    IF RectIsEmpty(rect) THEN ""
    ELSE toCoord(RectTopLeft(rect)) \o " rectangle " \o toCoord(RectBottomRight(rect))

-----------------------------------------------------------------------------
(* QTikzPicturePrivate of the class with writePath (draw and fill): its      *)
(* toCoord formats with the emitter's precision.                             *)

toCoord_prec(pt) ==
    "(" \o FormatG(pt.x, precision) \o ", " \o FormatG(pt.y, precision) \o ")"

toTikzPath_QPainterPath_prec(path) ==
    IF PathIsEmpty(path) THEN ""
    ELSE PathLoopResult(PathLoopAfter(path, [i \in DOMAIN path |-> toCoord_prec(path[i])], Len(path)))

toTikzPath_QRectF_prec(rect) ==
    IF RectIsEmpty(rect) THEN ""
    ELSE toCoord_prec(RectTopLeft(rect)) \o " rectangle "
            \o toCoord_prec(RectBottomRight(rect))

-----------------------------------------------------------------------------
(* Writing to the sink, and the record of a call. *)

\* (*d->ts) << ..., the texts of one call as one entry; through a null ts it
\* is a fault
Write(text) ==
    IF ts = NULL
    THEN /\ fault' = TRUE
         /\ out' = out
    ELSE /\ fault' = fault
         /\ out' = [out EXCEPT ![ts] = Append(@, text)]

NoWrite == UNCHANGED <<out, fault>>

Returns(op, args, ret) ==
    call' = [n |-> call.n + 1, op |-> op, args |-> args, ret |-> ret, ts |-> ts]

\* count copies of text
RECURSIVE Repeat(_, _)
Repeat(text, count) == IF count <= 0 THEN "" ELSE text \o Repeat(text, count - 1)

\* "[options]" behind a command name, nothing for empty options
Bracketed(options) == IF options = "" THEN "" ELSE "[" \o options \o "]"

\* QTextStream << double at the sink's precision (FixedNotation)
StreamReal(v) == FormatFixed(v, 10, rnPrecision[ts])

-----------------------------------------------------------------------------
(* QTikzPicture of qtikzpicture.cpp. *)

\* setStream that starts a new registry with the new sink
setStream_clears_registry(textStream, p) ==
    /\ ts' = textStream
    /\ precision' = (IF p > 0 THEN p ELSE 0)
    /\ IF textStream # NULL
       THEN /\ rnPrecision' = [rnPrecision EXCEPT ![textStream] = IF p < 0 THEN 6 ELSE p]
            /\ rnNotation' = [rnNotation EXCEPT ![textStream] = "FixedNotation"]
       ELSE UNCHANGED <<rnPrecision, rnNotation>>
    /\ colors' = {}
    /\ Returns("setStream", <<textStream, p>>, "void")
    /\ UNCHANGED <<out, fault, compiler>>

setStream(textStream, p) ==
    /\ ts' = textStream
    /\ precision' = (IF p > 0 THEN p ELSE 0)
    /\ IF textStream # NULL
       THEN \* setRealNumberPrecision refuses a negative value and falls back to 6
            /\ rnPrecision' = [rnPrecision EXCEPT ![textStream] = IF p < 0 THEN 6 ELSE p]
            /\ rnNotation' = [rnNotation EXCEPT ![textStream] = "FixedNotation"]
       ELSE UNCHANGED <<rnPrecision, rnNotation>>
    /\ Returns("setStream", <<textStream, p>>, "void")
    /\ UNCHANGED <<colors, out, fault, compiler>>

\* registerColor that enters the name only when it writes the \definecolor
registerColor_needs_sink(color) ==
    /\ IF BasicIndex(color) # 0
       THEN /\ UNCHANGED colors
            /\ NoWrite
       ELSE LET name == TranslitName(color)
            IN  IF name \notin colors /\ ts # NULL
                THEN /\ Write(DefineColorText(name, color, rnPrecision[ts]))
                     /\ colors' = colors \cup {name}
                ELSE /\ UNCHANGED colors
                     /\ NoWrite
    /\ Returns("registerColor", <<color>>, registerColor_name(color))
    /\ UNCHANGED <<ts, precision, rnPrecision, rnNotation, compiler>>

\* registerColor without the eight tests for the predefined colours
registerColor_no_fast_path(color) ==
    /\ LET name == TranslitName(color)
       IN  /\ IF name \notin colors
              THEN /\ IF ts # NULL
                      THEN Write(DefineColorText(name, color, rnPrecision[ts]))
                      ELSE NoWrite
                   /\ colors' = colors \cup {name}
              ELSE /\ UNCHANGED colors
                   /\ NoWrite
           /\ Returns("registerColor", <<color>>, name)
    /\ UNCHANGED <<ts, precision, rnPrecision, rnNotation, compiler>>

\* registerColor that enters the name and leaves the \definecolor line out
registerColor_no_definecolor(color) ==
    /\ IF BasicIndex(color) # 0
       THEN UNCHANGED colors
       ELSE colors' = colors \cup {TranslitName(color)}
    /\ NoWrite
    /\ Returns("registerColor", <<color>>, registerColor_name(color))
    /\ UNCHANGED <<ts, precision, rnPrecision, rnNotation, compiler>>

\* registerColor without the test d->colors.contains(name)
registerColor_no_contains(color) ==
    /\ IF BasicIndex(color) # 0
       THEN /\ UNCHANGED colors
            /\ NoWrite
       ELSE LET name == TranslitName(color)
            IN  /\ IF ts # NULL
                   THEN Write(DefineColorText(name, color, rnPrecision[ts]))
                   ELSE NoWrite
                /\ colors' = colors \cup {name}
    /\ Returns("registerColor", <<color>>, registerColor_name(color))
    /\ UNCHANGED <<ts, precision, rnPrecision, rnNotation, compiler>>

registerColor(color) ==
    /\ IF BasicIndex(color) # 0
       THEN /\ UNCHANGED colors
            /\ NoWrite
       ELSE LET name == TranslitName(color)
            IN  IF name \notin colors
                THEN /\ IF ts # NULL
                        THEN Write(DefineColorText(name, color, rnPrecision[ts]))
                        ELSE NoWrite
                     /\ colors' = colors \cup {name}
                ELSE /\ UNCHANGED colors
                     /\ NoWrite
    /\ Returns("registerColor", <<color>>, registerColor_name(color))
    /\ UNCHANGED <<ts, precision, rnPrecision, rnNotation, compiler>>

\* begin that starts a new registry with the new picture
begin_clears_registry(options) ==
    /\ IF ts = NULL THEN NoWrite
       ELSE IF options = "" THEN Write("\\begin{tikzpicture}\n")
       ELSE Write("\\begin{tikzpicture}[" \o options \o "]\n")
    /\ colors' = {}
    /\ Returns("begin", <<options>>, "void")
    /\ UNCHANGED <<ts, precision, rnPrecision, rnNotation, compiler>>

\* begin that writes the brackets whatever the options
begin_always_brackets(options) ==
    /\ IF ts = NULL THEN NoWrite
       ELSE Write("\\begin{tikzpicture}[" \o options \o "]\n")
    /\ Returns("begin", <<options>>, "void")
    /\ UNCHANGED <<ts, colors, precision, rnPrecision, rnNotation, compiler>>

begin(options) ==
    /\ IF ts = NULL THEN NoWrite
       ELSE IF options = "" THEN Write("\\begin{tikzpicture}\n")
       ELSE Write("\\begin{tikzpicture}[" \o options \o "]\n")
    /\ Returns("begin", <<options>>, "void")
    /\ UNCHANGED <<ts, colors, precision, rnPrecision, rnNotation, compiler>>

\* end that writes only behind a \begin{tikzpicture} of the same sink
end_after_begin ==
    /\ IF ts = NULL THEN NoWrite
       ELSE IF \E k \in DOMAIN out[ts] :
                  out[ts][k] \in {"\\begin{tikzpicture}\n", "\\begin{tikzpicture}[thick]\n"}
       THEN Write("\\end{tikzpicture}\n")
       ELSE NoWrite
    /\ Returns("end", <<>>, "void")
    /\ UNCHANGED <<ts, colors, precision, rnPrecision, rnNotation, compiler>>

end ==
    /\ IF ts = NULL THEN NoWrite
       ELSE Write("\\end{tikzpicture}\n")
    /\ Returns("end", <<>>, "void")
    /\ UNCHANGED <<ts, colors, precision, rnPrecision, rnNotation, compiler>>

beginScope(options) ==
    /\ IF ts = NULL THEN NoWrite
       ELSE IF options = "" THEN Write("\\begin{scope}\n")
       ELSE Write("\\begin{scope}[" \o options \o "]\n")
    /\ Returns("beginScope", <<options>>, "void")
    /\ UNCHANGED <<ts, colors, precision, rnPrecision, rnNotation, compiler>>

endScope ==
    /\ IF ts = NULL THEN NoWrite
       ELSE Write("\\end{scope}\n")
    /\ Returns("endScope", <<>>, "void")
    /\ UNCHANGED <<ts, colors, precision, rnPrecision, rnNotation, compiler>>

newline(count) ==
    /\ IF ts = NULL THEN NoWrite
       ELSE IF count > 0 THEN Write(Repeat("\n", count))
       ELSE NoWrite
    /\ Returns("newline", <<count>>, "void")
    /\ UNCHANGED <<ts, colors, precision, rnPrecision, rnNotation, compiler>>

\* comment that returns on an empty text
comment_skips_empty(text) ==
    /\ IF ts = NULL \/ text = "" THEN NoWrite
       ELSE Write("% " \o text \o "\n")
    /\ Returns("comment", <<text>>, "void")
    /\ UNCHANGED <<ts, colors, precision, rnPrecision, rnNotation, compiler>>

\* comment without the test of d->ts
comment_no_sink_test(text) ==
    /\ Write("% " \o text \o "\n")
    /\ Returns("comment", <<text>>, "void")
    /\ UNCHANGED <<ts, colors, precision, rnPrecision, rnNotation, compiler>>

comment(text) ==
    /\ IF ts = NULL THEN NoWrite
       ELSE Write("% " \o text \o "\n")
    /\ Returns("comment", <<text>>, "void")
    /\ UNCHANGED <<ts, colors, precision, rnPrecision, rnNotation, compiler>>

\* path(const QPainterPath&) without the test tikzPath.isEmpty()
path_QPainterPath_no_empty_test(path, options) ==
    /\ IF ts = NULL THEN NoWrite
       ELSE LET tikzPath == toTikzPath_QPainterPath(path)
                tikzCommand == IF options = "" THEN "\\path "
                               ELSE "\\path[" \o options \o "] "
            IN  Write(tikzCommand \o tikzPath \o ";\n")
    /\ Returns("path_QPainterPath", <<path, options>>, "void")
    /\ UNCHANGED <<ts, colors, precision, rnPrecision, rnNotation, compiler>>

path_QPainterPath(path, options) ==
    /\ IF ts = NULL THEN NoWrite
       ELSE LET tikzPath == toTikzPath_QPainterPath(path)
                tikzCommand == IF options = "" THEN "\\path "
                               ELSE "\\path[" \o options \o "] "
            IN  IF tikzPath = "" THEN NoWrite
                ELSE Write(tikzCommand \o tikzPath \o ";\n")
    /\ Returns("path_QPainterPath", <<path, options>>, "void")
    /\ UNCHANGED <<ts, colors, precision, rnPrecision, rnNotation, compiler>>

path_QRectF(rect, options) ==
    /\ IF ts = NULL THEN NoWrite
       ELSE LET tikzPath == toTikzPath_QRectF(rect)
                tikzCommand == IF options = "" THEN "\\path "
                               ELSE "\\path[" \o options \o "] "
            IN  IF tikzPath = "" THEN NoWrite
                ELSE Write(tikzCommand \o tikzPath \o ";\n")
    /\ Returns("path_QRectF", <<rect, options>>, "void")
    /\ UNCHANGED <<ts, colors, precision, rnPrecision, rnNotation, compiler>>

clip_QPainterPath(path) ==
    /\ IF ts = NULL THEN NoWrite
       ELSE LET tikzPath == toTikzPath_QPainterPath(path)
            IN  IF tikzPath = "" THEN NoWrite
                ELSE Write("\\clip " \o tikzPath \o ";\n")
    /\ Returns("clip_QPainterPath", <<path>>, "void")
    /\ UNCHANGED <<ts, colors, precision, rnPrecision, rnNotation, compiler>>

clip_QRectF(rect) ==
    /\ IF ts = NULL THEN NoWrite
       ELSE LET tikzPath == toTikzPath_QRectF(rect)
            IN  IF tikzPath = "" THEN NoWrite
                ELSE Write("\\clip " \o tikzPath \o ";\n")
    /\ Returns("clip_QRectF", <<rect>>, "void")
    /\ UNCHANGED <<ts, colors, precision, rnPrecision, rnNotation, compiler>>

circle(center, radius, options) ==
    /\ IF ts = NULL \/ radius <= 0 THEN NoWrite
       ELSE Write("\\draw" \o Bracketed(options)
                  \o " (" \o StreamReal(center.x) \o ", " \o StreamReal(center.y)
                  \o ") circle (" \o StreamReal(radius) \o "cm);\n")
    /\ Returns("circle", <<center, radius, options>>, "void")
    /\ UNCHANGED <<ts, colors, precision, rnPrecision, rnNotation, compiler>>

line_QPointF(p, q, options) ==
    /\ IF ts = NULL THEN NoWrite
       ELSE Write("\\draw" \o Bracketed(options)
                  \o " (" \o StreamReal(p.x) \o ", " \o StreamReal(p.y)
                  \o ") -- (" \o StreamReal(q.x) \o ", " \o StreamReal(q.y) \o ");\n")
    /\ Returns("line_QPointF", <<p, q, options>>, "void")
    /\ UNCHANGED <<ts, colors, precision, rnPrecision, rnNotation, compiler>>

\* the loop of line(const QVector<QPointF>&): the points before the last
RECURSIVE LinePoints(_, _)
LinePoints(points, n) ==
    IF n <= 0 THEN ""
    ELSE LinePoints(points, n - 1)
         \o " (" \o StreamReal(points[n].x) \o ", " \o StreamReal(points[n].y) \o ") --"

line_QVector(points, options) ==
    /\ IF ts = NULL \/ Len(points) < 2 THEN NoWrite
       ELSE LET size == Len(points)
            IN  Write("\\draw" \o Bracketed(options)
                      \o LinePoints(points, size - 1)
                      \o " (" \o StreamReal(points[size].x) \o ", "
                      \o StreamReal(points[size].y) \o ");\n")
    /\ Returns("line_QVector", <<points, options>>, "void")
    /\ UNCHANGED <<ts, colors, precision, rnPrecision, rnNotation, compiler>>

\* operator<< (const QString&)
shl_QString(text) ==
    /\ IF ts = NULL \/ text = "" THEN NoWrite
       ELSE Write(text)
    /\ Returns("shl_QString", <<text>>, "this")
    /\ UNCHANGED <<ts, colors, precision, rnPrecision, rnNotation, compiler>>

\* operator<< (double), number in tenths
shl_double(number) ==
    /\ IF ts # NULL THEN Write(StreamReal(number))
       ELSE NoWrite
    /\ Returns("shl_double", <<number>>, "this")
    /\ UNCHANGED <<ts, colors, precision, rnPrecision, rnNotation, compiler>>

\* operator<< (int)
shl_int(number) ==
    /\ IF ts # NULL THEN Write(ToString(number))
       ELSE NoWrite
    /\ Returns("shl_int", <<number>>, "this")
    /\ UNCHANGED <<ts, colors, precision, rnPrecision, rnNotation, compiler>>

-----------------------------------------------------------------------------
(* QTikzPicture of the class with writePath: draw and fill. *)

\* writePath without the test path.isEmpty()
writePath_no_empty_test(cmd, options, path) ==
    IF ts = NULL THEN NoWrite
    ELSE Write(cmd \o Bracketed(options) \o " " \o path \o ";\n")

writePath(cmd, options, path) ==
    IF ts = NULL THEN NoWrite
    ELSE IF path = "" THEN NoWrite
    ELSE Write(cmd \o Bracketed(options) \o " " \o path \o ";\n")

draw_QPainterPath(path, options) ==
    /\ writePath("\\draw", options, toTikzPath_QPainterPath_prec(path))
    /\ Returns("draw_QPainterPath", <<path, options>>, "void")
    /\ UNCHANGED <<ts, colors, precision, rnPrecision, rnNotation, compiler>>

draw_QRectF(rect, options) ==
    /\ writePath("\\draw", options, toTikzPath_QRectF_prec(rect))
    /\ Returns("draw_QRectF", <<rect, options>>, "void")
    /\ UNCHANGED <<ts, colors, precision, rnPrecision, rnNotation, compiler>>

fill_QPainterPath(path, options) ==
    /\ writePath("\\fill", options, toTikzPath_QPainterPath_prec(path))
    /\ Returns("fill_QPainterPath", <<path, options>>, "void")
    /\ UNCHANGED <<ts, colors, precision, rnPrecision, rnNotation, compiler>>

fill_QRectF(rect, options) ==
    /\ writePath("\\fill", options, toTikzPath_QRectF_prec(rect))
    /\ Returns("fill_QRectF", <<rect, options>>, "void")
    /\ UNCHANGED <<ts, colors, precision, rnPrecision, rnNotation, compiler>>

\* path(const QRectF&, const QString&) of this class
path_QRectF_writePath(rect, options) ==
    /\ writePath("\\path", options, toTikzPath_QRectF_prec(rect))
    /\ Returns("path_QRectF_writePath", <<rect, options>>, "void")
    /\ UNCHANGED <<ts, colors, precision, rnPrecision, rnNotation, compiler>>

\* clip(const QRectF&) of this class
clip_QRectF_writePath(rect) ==
    /\ writePath("\\clip", "", toTikzPath_QRectF_prec(rect))
    /\ Returns("clip_QRectF_writePath", <<rect>>, "void")
    /\ UNCHANGED <<ts, colors, precision, rnPrecision, rnNotation, compiler>>

\* toTikzPath(const QPointF&, qreal): the test is radius < 0
toTikzPath_circle(circleCenter, radius) ==
    IF radius < 0 THEN ""
    ELSE toCoord_prec(circleCenter) \o " circle (" \o FormatG(radius, precision) \o "cm)"

\* path(const QPointF&, qreal, const QString&)
path_circle(circleCenter, radius, options) ==
    /\ writePath("\\path", options, toTikzPath_circle(circleCenter, radius))
    /\ Returns("path_circle", <<circleCenter, radius, options>>, "void")
    /\ UNCHANGED <<ts, colors, precision, rnPrecision, rnNotation, compiler>>

\* draw(const QPointF&, qreal, const QString&)
draw_circle(circleCenter, radius, options) ==
    /\ writePath("\\draw", options, toTikzPath_circle(circleCenter, radius))
    /\ Returns("draw_circle", <<circleCenter, radius, options>>, "void")
    /\ UNCHANGED <<ts, colors, precision, rnPrecision, rnNotation, compiler>>

\* fill(const QPointF&, qreal, const QString&)
fill_circle(circleCenter, radius, options) ==
    /\ writePath("\\fill", options, toTikzPath_circle(circleCenter, radius))
    /\ Returns("fill_circle", <<circleCenter, radius, options>>, "void")
    /\ UNCHANGED <<ts, colors, precision, rnPrecision, rnNotation, compiler>>

\* an isClosed() that takes one point alone for open
PolygonIsClosed_two_points(polygon) ==
    Len(polygon) >= 2 /\ polygon[1] = polygon[Len(polygon)]

\* QPolygonF::isClosed(): not empty, and the first point equal to the last
PolygonIsClosed(polygon) ==
    Len(polygon) # 0 /\ polygon[1] = polygon[Len(polygon)]

\* const int end = polygon.size() - polygon.isClosed() ? 1 : 0;
\* the conditional takes the whole difference as its condition
PolygonEnd(polygon) ==
    IF Len(polygon) - (IF PolygonIsClosed(polygon) THEN 1 ELSE 0) # 0 THEN 1 ELSE 0

\* the text in path after the first n iterations of the loop of
\* toTikzPath(const QPolygonF&), the points counted from 1
RECURSIVE PolygonLoop(_, _, _)
PolygonLoop(polygon, endIndex, n) ==
    IF n <= 0 THEN ""
    ELSE LET i == n - 1
             before == PolygonLoop(polygon, endIndex, n - 1)
         IN  IF i = 0 THEN toCoord_prec(polygon[1])
             ELSE IF i = endIndex - 1 THEN before \o " -- cycle"
             ELSE before \o " -- " \o toCoord_prec(polygon[i + 1])

toTikzPath_QPolygonF(polygon) ==
    IF Len(polygon) = 0 THEN ""
    ELSE PolygonLoop(polygon, PolygonEnd(polygon), PolygonEnd(polygon))

\* path(const QPolygonF&, const QString&)
path_QPolygonF(polygon, options) ==
    /\ writePath("\\path", options, toTikzPath_QPolygonF(polygon))
    /\ Returns("path_QPolygonF", <<polygon, options>>, "void")
    /\ UNCHANGED <<ts, colors, precision, rnPrecision, rnNotation, compiler>>

\* draw(const QPolygonF&, const QString&)
draw_QPolygonF(polygon, options) ==
    /\ writePath("\\draw", options, toTikzPath_QPolygonF(polygon))
    /\ Returns("draw_QPolygonF", <<polygon, options>>, "void")
    /\ UNCHANGED <<ts, colors, precision, rnPrecision, rnNotation, compiler>>

\* fill(const QPolygonF&, const QString&)
fill_QPolygonF(polygon, options) ==
    /\ writePath("\\fill", options, toTikzPath_QPolygonF(polygon))
    /\ Returns("fill_QPolygonF", <<polygon, options>>, "void")
    /\ UNCHANGED <<ts, colors, precision, rnPrecision, rnNotation, compiler>>

\* the message of clip(const QPainterPath&) on an element that is neither
\* a MoveTo nor a LineTo
ClipWarning == "QTikzPicture::clip: uknown QPainterPath segment type"

\* what the loop of clip(const QPainterPath&) has streamed after the first n
\* elements: the separator of the element's type, then its coordinate
RECURSIVE ClipLoop(_, _)
ClipLoop(path, n) ==
    IF n <= 0 THEN ""
    ELSE LET element == path[n]
             i == n - 1
             separator ==
                 IF element.type = "MoveToElement"
                 THEN (IF i > 0 THEN " -- cycle" \o "\n      " ELSE "")
                 ELSE IF element.type = "LineToElement" THEN " -- "
                 ELSE ""
         IN  ClipLoop(path, n - 1) \o separator
             \o "(" \o StreamReal(element.x) \o ", " \o StreamReal(element.y) \o ")"

\* the messages of the loop: one for each element of another type
ClipWarnings(path) ==
    LET others == {k \in DOMAIN path :
                     path[k].type \notin {"MoveToElement", "LineToElement"}}
    IN  [k \in 1..Cardinality(others) |-> ClipWarning]

\* clip(const QPainterPath&) of the class that walks the elements itself
clip_QPainterPath_warn(path) ==
    /\ IF ts = NULL \/ PathIsEmpty(path) THEN NoWrite
       ELSE /\ out' = [out EXCEPT
                          ![ts] = Append(@, "\\clip " \o ClipLoop(path, Len(path))
                                            \o " -- cycle;\n"),
                          ![MessageLog] = @ \o ClipWarnings(path)]
            /\ UNCHANGED fault
    /\ Returns("clip_QPainterPath_warn", <<path>>, "void")
    /\ UNCHANGED <<ts, colors, precision, rnPrecision, rnNotation, compiler>>

\* operator<< (const char*): operator<<(QString(text))
shl_charptr(text) ==
    /\ IF ts = NULL \/ text = "" THEN NoWrite
       ELSE Write(text)
    /\ Returns("shl_charptr", <<text>>, "this")
    /\ UNCHANGED <<ts, colors, precision, rnPrecision, rnNotation, compiler>>

-----------------------------------------------------------------------------
(* The arguments the callers of the model pass. *)

P0 == QPointF(0, 0)
P1 == QPointF(10, 15)
Points == {P0, P1}

MoveTo(pt) == Element("MoveToElement", pt)
LineTo(pt) == Element("LineToElement", pt)
CurveTo(pt) == Element("CurveToElement", pt)
CurveToData(pt) == Element("CurveToDataElement", pt)

StreamArgs == {NULL, "A"}
PrecisionArgs == {-1, 0, 2}
OptionArgs == {"", "thick"}

\* a colour that is none of the eight, from the documentation of registerColor
DocColor == QColor(100, 200, 0, 255)
\* one digit away from DocColor
NearDocColor == QColor(100, 200, 1, 255)
\* the channels of Qt::red, half transparent: not equal to Qt::red
TranslucentRed == QColor(255, 0, 0, 128)

BasicColorSet == {BasicColors[BasicNames[i]] : i \in 1..Len(BasicNames)}

ColorArgs == BasicColorSet \cup {DocColor, TranslucentRed}

OpenPath == <<MoveTo(P0), LineTo(P1)>>
TwoSubPaths == <<MoveTo(P0), LineTo(P1), MoveTo(P1), LineTo(P0)>>

PathArgs == {<<>>, <<MoveTo(P1)>>, OpenPath, TwoSubPaths}

UnitRect == QRectF(0, 0, 10, 15)

\* a normal rectangle, zero width, zero height, negative width
RectArgs == {UnitRect, QRectF(10, 0, 0, 15), QRectF(0, 10, 10, 0), QRectF(10, 10, -10, 15)}

RadiusArgs == {-10, 0, 15}
CountArgs == {-1, 0, 1, 2}
TextArgs == {"", "note"}
PointListArgs == {<<>>, <<P0>>, <<P0, P1>>, <<P0, P1, P0>>}

-----------------------------------------------------------------------------
(* The emitter after its constructor, and the whole API called at most       *)
(* MaxCalls times.                                                           *)

CompilerIdle ==
    [path |-> <<>>, i |-> 0, st |-> PathLoopInit, result |-> "", pc |-> "idle"]

Constructed ==
    /\ ts = NULL
    /\ colors = {}
    /\ precision = 2
    /\ out = [s \in Streams \cup {MessageLog} |-> <<>>]
    /\ rnPrecision = [s \in Streams |-> 6]
    /\ rnNotation = [s \in Streams |-> "SmartNotation"]
    /\ fault = FALSE
    /\ call = [n |-> 0, op |-> "QTikzPicture", args |-> <<>>, ret |-> "void", ts |-> NULL]
    /\ log = <<>>

Init ==
    /\ Constructed
    /\ compiler = CompilerIdle

\* the program is alive and the caller has calls left
CanCall(bound) == ~fault /\ call.n < bound

\* the specification keeps no record of earlier calls / appends the call to it
Untraced == UNCHANGED log
Traced == log' = Append(log, call')

Next ==
    \/ \E s \in StreamArgs, p \in PrecisionArgs : CanCall(MaxCalls) /\ setStream(s, p) /\ Untraced
    \/ \E c \in ColorArgs : CanCall(MaxCalls) /\ registerColor(c) /\ Untraced
    \/ \E o \in OptionArgs : CanCall(MaxCalls) /\ begin(o) /\ Untraced
    \/ CanCall(MaxCalls) /\ end /\ Untraced
    \/ \E o \in OptionArgs : CanCall(MaxCalls) /\ beginScope(o) /\ Untraced
    \/ CanCall(MaxCalls) /\ endScope /\ Untraced
    \/ \E n \in CountArgs : CanCall(MaxCalls) /\ newline(n) /\ Untraced
    \/ \E t \in TextArgs : CanCall(MaxCalls) /\ comment(t) /\ Untraced
    \/ \E pa \in PathArgs, o \in OptionArgs : CanCall(MaxCalls) /\ path_QPainterPath(pa, o) /\ Untraced
    \/ \E r \in RectArgs, o \in OptionArgs : CanCall(MaxCalls) /\ path_QRectF(r, o) /\ Untraced
    \/ \E pa \in PathArgs : CanCall(MaxCalls) /\ clip_QPainterPath(pa) /\ Untraced
    \/ \E r \in RectArgs : CanCall(MaxCalls) /\ clip_QRectF(r) /\ Untraced
    \/ \E r \in RadiusArgs, o \in OptionArgs : CanCall(MaxCalls) /\ circle(P1, r, o) /\ Untraced
    \/ \E o \in OptionArgs : CanCall(MaxCalls) /\ line_QPointF(P0, P1, o) /\ Untraced
    \/ \E pl \in PointListArgs, o \in OptionArgs : CanCall(MaxCalls) /\ line_QVector(pl, o) /\ Untraced
    \/ \E t \in TextArgs : CanCall(MaxCalls) /\ shl_QString(t) /\ Untraced
    \/ \E t \in TextArgs : CanCall(MaxCalls) /\ shl_charptr(t) /\ Untraced
    \/ CanCall(MaxCalls) /\ shl_double(15) /\ Untraced
    \/ CanCall(MaxCalls) /\ shl_int(-3) /\ Untraced
    \/ \E pa \in PathArgs, o \in OptionArgs : CanCall(MaxCalls) /\ draw_QPainterPath(pa, o) /\ Untraced
    \/ \E r \in RectArgs, o \in OptionArgs : CanCall(MaxCalls) /\ draw_QRectF(r, o) /\ Untraced
    \/ \E pa \in PathArgs, o \in OptionArgs : CanCall(MaxCalls) /\ fill_QPainterPath(pa, o) /\ Untraced
    \/ \E r \in RectArgs, o \in OptionArgs : CanCall(MaxCalls) /\ fill_QRectF(r, o) /\ Untraced
    \/ \E r \in RectArgs, o \in OptionArgs :
          CanCall(MaxCalls) /\ path_QRectF_writePath(r, o) /\ Untraced
    \/ \E r \in RectArgs : CanCall(MaxCalls) /\ clip_QRectF_writePath(r) /\ Untraced

Spec == Init /\ [][Next]_vars

-----------------------------------------------------------------------------
(* SpecNames: setStream and registerColor over a grid of colours, every call *)
(* kept in log.                                                              *)

\* 0x00, 0x01, 0x11, 0xff: every colour of {0, 255}^3 is one of the eight
ChannelSamples == {0, 1, 17, 255}

GridColors ==
    {QColor(r, g, b, 255) : r \in ChannelSamples, g \in ChannelSamples, b \in ChannelSamples}

NextNames ==
    \/ \E s \in StreamArgs : CanCall(MaxNameCalls) /\ setStream(s, 2) /\ Traced
    \/ \E c \in GridColors : CanCall(MaxNameCalls) /\ registerColor(c) /\ Traced

SpecNames == Init /\ [][NextNames]_vars

-----------------------------------------------------------------------------
(* SpecColor: longer call sequences of setStream, registerColor and a        *)
(* drawing command whose options name a colour, every call kept in log.      *)

SinkArgs == {NULL} \cup Streams

PaletteColors == {BasicColors.red, DocColor, NearDocColor, TranslucentRed}

\* the options of the documentation's example, "draw=" + col
DrawOption(name) == "draw=" \o name

NextColor ==
    \/ \E s \in SinkArgs : CanCall(MaxColorCalls) /\ setStream(s, 2) /\ Traced
    \/ \E c \in PaletteColors : CanCall(MaxColorCalls) /\ registerColor(c) /\ Traced
    \/ \E c \in PaletteColors :
          CanCall(MaxColorCalls)
          /\ path_QRectF(UnitRect, DrawOption(registerColor_name(c))) /\ Traced

SpecColor == Init /\ [][NextColor]_vars

-----------------------------------------------------------------------------
(* SpecPath: toTikzPath(const QPainterPath&) run element by element on every *)
(* path of at most MaxPathLen elements, then the emitter called with it.     *)

PathElements == {Element(t, pt) : t \in ElementTypes, pt \in Points}

PathInputs ==
    {p \in UNION {[1..n -> PathElements] : n \in 0..MaxPathLen} : WellFormedPath(p)}

InitPath ==
    /\ Constructed
    /\ \E p \in PathInputs : compiler = [CompilerIdle EXCEPT !.path = p, !.pc = "call"]

EmitterVars == <<ts, colors, precision, out, rnPrecision, rnNotation, fault, call, log>>

\* toTikzPath, before the loop
toTikzPath_enter ==
    /\ compiler.pc = "call"
    /\ compiler' = IF PathIsEmpty(compiler.path)
                   THEN [compiler EXCEPT !.result = "", !.pc = "done"]
                   ELSE [compiler EXCEPT !.st = PathLoopInit, !.i = 0, !.pc = "loop"]
    /\ UNCHANGED EmitterVars

\* one iteration of the loop
toTikzPath_iterate ==
    /\ compiler.pc = "loop"
    /\ compiler.i < Len(compiler.path)
    /\ compiler' = [compiler EXCEPT
                       !.st = PathLoopStep(@, compiler.path[compiler.i + 1],
                                          toCoord(compiler.path[compiler.i + 1])),
                       !.i = @ + 1]
    /\ UNCHANGED EmitterVars

\* the return behind the loop
toTikzPath_return ==
    /\ compiler.pc = "loop"
    /\ compiler.i = Len(compiler.path)
    /\ compiler' = [compiler EXCEPT !.result = PathLoopResult(compiler.st), !.pc = "done"]
    /\ UNCHANGED EmitterVars

CanCallWithPath == compiler.pc = "done" /\ CanCall(MaxPathCalls)

NextPath ==
    \/ toTikzPath_enter
    \/ toTikzPath_iterate
    \/ toTikzPath_return
    \/ CanCallWithPath /\ setStream("A", 2) /\ Untraced
    \/ \E o \in OptionArgs :
          CanCallWithPath /\ path_QPainterPath(compiler.path, o) /\ Untraced
    \/ CanCallWithPath /\ clip_QPainterPath(compiler.path) /\ Untraced

SpecPath == InitPath /\ [][NextPath]_vars

-----------------------------------------------------------------------------
(* SpecCurve: toTikzPath(const QPainterPath&) run element by element on      *)
(* every sequence of at most MaxCurveLen elements, the ones no moveTo,       *)
(* lineTo and cubicTo builds included (a QPainterPath read from a            *)
(* QDataStream holds whatever element types the stream gives).               *)

CurveInputs == UNION {[1..n -> PathElements] : n \in 0..MaxCurveLen}

InitCurve ==
    /\ Constructed
    /\ \E p \in CurveInputs : compiler = [CompilerIdle EXCEPT !.path = p, !.pc = "call"]

NextCurve ==
    \/ toTikzPath_enter
    \/ toTikzPath_iterate
    \/ toTikzPath_return

SpecCurve == InitCurve /\ [][NextCurve]_vars

-----------------------------------------------------------------------------
(* SpecClip: the two clip(const QPainterPath&), on paths with lines and with *)
(* curves.                                                                   *)

\* moveTo(0, 0); cubicTo(1, 1.5, 1, 1.5, 0, 0)
CurvePath == <<MoveTo(P0), CurveTo(P1), CurveToData(P1), CurveToData(P0)>>

\* moveTo(0, 0); lineTo(1, 1.5); cubicTo(1, 1.5, 0, 0, 0, 0); moveTo(1, 1.5); lineTo(0, 0)
LineCurvePath ==
    <<MoveTo(P0), LineTo(P1), CurveTo(P1), CurveToData(P0), CurveToData(P0),
      MoveTo(P1), LineTo(P0)>>

ClipPathArgs == PathArgs \cup {CurvePath, LineCurvePath}

NextClip ==
    \/ \E s \in StreamArgs, p \in PrecisionArgs :
          CanCall(MaxClipCalls) /\ setStream(s, p) /\ Untraced
    \/ \E pa \in ClipPathArgs : CanCall(MaxClipCalls) /\ clip_QPainterPath_warn(pa) /\ Untraced
    \/ \E pa \in ClipPathArgs : CanCall(MaxClipCalls) /\ clip_QPainterPath(pa) /\ Untraced

SpecClip == Init /\ [][NextClip]_vars

-----------------------------------------------------------------------------
(* SpecShapes: the circle and the polyline operations of both classes, at    *)
(* every precision setStream is given.                                       *)

NextShapes ==
    \/ \E s \in StreamArgs, p \in PrecisionArgs :
          CanCall(MaxShapeCalls) /\ setStream(s, p) /\ Untraced
    \/ \E r \in RadiusArgs, o \in OptionArgs :
          CanCall(MaxShapeCalls) /\ circle(P1, r, o) /\ Untraced
    \/ \E r \in RadiusArgs, o \in OptionArgs :
          CanCall(MaxShapeCalls) /\ path_circle(P1, r, o) /\ Untraced
    \/ \E r \in RadiusArgs, o \in OptionArgs :
          CanCall(MaxShapeCalls) /\ draw_circle(P1, r, o) /\ Untraced
    \/ \E r \in RadiusArgs, o \in OptionArgs :
          CanCall(MaxShapeCalls) /\ fill_circle(P1, r, o) /\ Untraced
    \/ \E pl \in PointListArgs, o \in OptionArgs :
          CanCall(MaxShapeCalls) /\ line_QVector(pl, o) /\ Untraced
    \/ \E pl \in PointListArgs, o \in OptionArgs :
          CanCall(MaxShapeCalls) /\ path_QPolygonF(pl, o) /\ Untraced
    \/ \E pl \in PointListArgs, o \in OptionArgs :
          CanCall(MaxShapeCalls) /\ draw_QPolygonF(pl, o) /\ Untraced
    \/ \E pl \in PointListArgs, o \in OptionArgs :
          CanCall(MaxShapeCalls) /\ fill_QPolygonF(pl, o) /\ Untraced

SpecShapes == Init /\ [][NextShapes]_vars

-----------------------------------------------------------------------------
(* Reading the record of calls and the sink. *)

RegCalls == {i \in DOMAIN log : log[i].op = "registerColor"}

MinOf(S) == CHOOSE m \in S : \A x \in S : m <= x

\* every registerColor so far, from the first one on, found the same non-null
\* sink, and it is still the sink
SinkFixedSinceFirstRegistration ==
    /\ RegCalls # {}
    /\ LET f == MinOf(RegCalls)
       IN  /\ log[f].ts # NULL
           /\ ts = log[f].ts
           /\ \A k \in f..Len(log) : log[k].ts = log[f].ts

\* the precisions a stream of the model can have: its own 6, or an argument
StreamPrecisions == {6} \cup {p \in PrecisionArgs : p >= 0}

\* text is the \definecolor line of color, whose name is name, at some precision
IsDefineColorLine(text, name, color) ==
    \E p \in StreamPrecisions : text = DefineColorText(name, color, p)

\* where stream s holds the \definecolor line of color
DefineColorLines(s, name, color) ==
    {k \in DOMAIN out[s] : IsDefineColorLine(out[s][k], name, color)}

-----------------------------------------------------------------------------
(* The claims. *)

\* C1: with the sink set and unchanged from the first registerColor on, every
\* registerColor of an equal non-basic colour returns the same name and the
\* sink holds the \definecolor line of that name exactly once.
C1_RegisterColorIdempotent ==
    SinkFixedSinceFirstRegistration =>
        \A i \in RegCalls :
            BasicIndex(log[i].args[1]) = 0 =>
                /\ \A j \in RegCalls :
                      log[j].args[1] = log[i].args[1] => log[j].ret = log[i].ret
                /\ Cardinality(DefineColorLines(ts, log[i].ret, log[i].args[1])) = 1

\* two registerColor calls of one non-basic colour on an unchanged sink
C1_Witness ==
    /\ SinkFixedSinceFirstRegistration
    /\ \E i \in RegCalls, j \in RegCalls :
          /\ i < j
          /\ log[i].args[1] = log[j].args[1]
          /\ BasicIndex(log[i].args[1]) = 0

\* C2: a path of one MoveTo (x1, y1) and one LineTo (x2, y2) compiles to
\* "(x1, y1) -- (x2, y2)", and path() with a set sink writes a \path command
\* carrying that text.
C2_SingleLineCompiles ==
    \A p1 \in Points, p2 \in Points :
        compiler.path = <<MoveTo(p1), LineTo(p2)>> =>
            LET text == toCoord(p1) \o " -- " \o toCoord(p2)
            IN  /\ compiler.pc = "done" => compiler.result = text
                /\ (call.op = "path_QPainterPath" /\ call.ts # NULL) =>
                      /\ Len(out[call.ts]) > 0
                      /\ out[call.ts][Len(out[call.ts])]
                            = "\\path" \o Bracketed(call.args[2]) \o " " \o text \o ";\n"

\* the MoveTo elements of path
SubPathStarts(path) == {i \in DOMAIN path : path[i].type = "MoveToElement"}

\* C3: a path of k >= 2 sub-paths, each with an element after its MoveTo,
\* compiles to the k sub-path texts joined by newlines: the k - 1 closed ones
\* and the trailing one, as it is.
C3_TrailingSubPathPresent ==
    LET path == compiler.path
        k == Cardinality(SubPathStarts(path))
    IN  (/\ compiler.pc = "done"
         /\ k >= 2
         /\ \A i \in SubPathStarts(path) :
               i < Len(path) /\ path[i + 1].type # "MoveToElement")
        => /\ Len(compiler.st.pathList) = k - 1
           /\ compiler.result
                 = Join(Append(compiler.st.pathList, compiler.st.currentPath), "\n")

\* call' is the record of a call made in this step
Called == call'.n = call.n + 1

\* C4: registerColor of one of the eight basic colours returns the basic
\* name, enters nothing into the registry and writes nothing, whatever the
\* state it is called in.
C4_BasicColorsBypassRegistry ==
    [][\A i \in 1..Len(BasicNames) :
          (/\ Called
           /\ call'.op = "registerColor"
           /\ call'.args[1] = BasicColors[BasicNames[i]])
          => /\ call'.ret = BasicNames[i]
             /\ colors' = colors
             /\ out' = out]_vars

\* registerColor(Qt::yellow) has returned, the sink set
C4_Witness ==
    /\ call.op = "registerColor"
    /\ call.args[1] = BasicColors.yellow
    /\ call.ret = "yellow"
    /\ call.ts # NULL

\* the red, green and blue channels
Rgb(color) == <<color.r, color.g, color.b>>

\* C5: registerColor returns distinct names for non-basic colours of
\* distinct RGB values.
C5_DistinctColorsDistinctNames ==
    \A i \in RegCalls, j \in RegCalls :
        (/\ BasicIndex(log[i].args[1]) = 0
         /\ BasicIndex(log[j].args[1]) = 0
         /\ Rgb(log[i].args[1]) # Rgb(log[j].args[1]))
        => log[i].ret # log[j].ret

\* two non-basic colours that differ in one hex digit have been registered
C5_Witness ==
    \E i \in RegCalls, j \in RegCalls :
        /\ log[i].args[1] = QColor(0, 1, 17, 255)
        /\ log[j].args[1] = QColor(1, 1, 17, 255)

\* C6: with the sink set before the first registerColor and not changed
\* since, a drawing command whose options name a colour that an earlier
\* registerColor returned for a non-basic colour stands in the sink behind
\* the \definecolor line of that name.
C6_DefinitionPrecedesUse ==
    \A i \in RegCalls :
        (/\ SinkFixedSinceFirstRegistration
         /\ call.op = "path_QRectF"
         /\ BasicIndex(log[i].args[1]) = 0
         /\ call.args[2] = DrawOption(log[i].ret))
        => LET sink == out[ts]
               n == Len(sink)
           IN  /\ n >= 2
               /\ sink[n] = "\\path[" \o call.args[2] \o "] "
                               \o toTikzPath_QRectF(call.args[1]) \o ";\n"
               /\ \E k \in 1..(n - 1) :
                     IsDefineColorLine(sink[k], log[i].ret, log[i].args[1])

\* registerColor(QColor(100, 200, 0)), then path(rect, "draw=" + its name)
C6_Witness ==
    /\ SinkFixedSinceFirstRegistration
    /\ call.op = "path_QRectF"
    /\ call.args[2] = DrawOption(TranslitName(DocColor))
    /\ \E i \in RegCalls : log[i].args[1] = DocColor

\* the operations that test d->ts and return
SinkGuardedOps ==
    {"begin", "end", "beginScope", "endScope", "newline", "comment",
     "path_QPainterPath", "path_QRectF", "clip_QPainterPath", "clip_QRectF",
     "circle", "line_QPointF", "line_QVector",
     "shl_QString", "shl_charptr", "shl_double", "shl_int",
     "draw_QPainterPath", "draw_QRectF", "fill_QPainterPath", "fill_QRectF",
     "path_QRectF_writePath", "clip_QRectF_writePath"}

\* C7: while the sink is unset, begin, end, beginScope, endScope, newline,
\* comment, path, draw, fill, clip, circle, line and operator<< return
\* without writing through the null sink, write nothing and leave the
\* registry, the precision and the sink as they are.
C7_UnsetSinkNoOp ==
    [][(/\ ts = NULL
        /\ Called
        /\ call'.op \in SinkGuardedOps)
       => /\ fault' = FALSE
          /\ out' = out
          /\ colors' = colors
          /\ precision' = precision
          /\ ts' = NULL]_vars

\* line(points) of two points has returned, the sink set to a stream and
\* then to null before it
C7_Witness ==
    /\ ts = NULL
    /\ rnNotation["A"] = "FixedNotation"
    /\ call.op = "line_QVector"
    /\ Len(call.args[1]) >= 2
    /\ ~fault

\* a path without a segment: no element, or a lone MoveTo
NoSegmentPath(path) ==
    \/ path = <<>>
    \/ \E pt \in Points : path = <<MoveTo(pt)>>

\* C8: an empty path and a path of one MoveTo compile to the empty text, and
\* path() and clip() of such a path append nothing to the sink.
C8_NoSegmentNoOutput ==
    NoSegmentPath(compiler.path) =>
        /\ compiler.pc = "done" => compiler.result = ""
        /\ \A s \in Streams : out[s] = <<>>

\* path() of a lone MoveTo has returned, the sink set
C8_Witness ==
    /\ compiler.path = <<MoveTo(P1)>>
    /\ call.op = "path_QPainterPath"
    /\ call.ts = "A"

\* the operations that end in writePath, with its three arguments
WritePathOps ==
    {"draw_QPainterPath", "draw_QRectF", "fill_QPainterPath", "fill_QRectF",
     "path_QRectF_writePath", "clip_QRectF_writePath"}

WritePathCmd(c) ==
    CASE c.op \in {"draw_QPainterPath", "draw_QRectF"} -> "\\draw"
      [] c.op \in {"fill_QPainterPath", "fill_QRectF"} -> "\\fill"
      [] c.op = "path_QRectF_writePath" -> "\\path"
      [] c.op = "clip_QRectF_writePath" -> "\\clip"

WritePathOptions(c) == IF c.op = "clip_QRectF_writePath" THEN "" ELSE c.args[2]

WritePathBody(c) ==
    IF c.op \in {"draw_QPainterPath", "fill_QPainterPath"}
    THEN toTikzPath_QPainterPath_prec(c.args[1])
    ELSE toTikzPath_QRectF_prec(c.args[1])

\* C9: with a set sink, writePath with an empty body appends nothing, for
\* every command and every options; with another body it appends the
\* command, "[options]" if options is not empty, " ", the body and ";\n".
C9_WritePath ==
    [][(/\ ts # NULL
        /\ Called
        /\ call'.op \in WritePathOps)
       => LET cmd == WritePathCmd(call')
              options == WritePathOptions(call')
              body == WritePathBody(call')
              brackets == IF options = "" THEN "" ELSE "[" \o options \o "]"
          IN  IF body = ""
              THEN out' = out
              ELSE out' = [out EXCEPT
                              ![ts] = Append(@, cmd \o brackets \o " " \o body \o ";\n")]]_vars

\* draw(rect, "thick") of an empty rectangle has returned, the sink set and
\* still empty
C9_Witness ==
    /\ call.op = "draw_QRectF"
    /\ call.ts # NULL
    /\ call.args[2] = "thick"
    /\ toTikzPath_QRectF_prec(call.args[1]) = ""
    /\ out[call.ts] = <<>>

\* path, clip, draw and fill of a rectangle
RectOps ==
    {"path_QRectF", "clip_QRectF", "draw_QRectF", "fill_QRectF",
     "path_QRectF_writePath", "clip_QRectF_writePath"}

\* C10: path, draw, fill and clip of a rectangle of zero width or zero
\* height append nothing to the sink.
C10_DegenerateRectNoOutput ==
    [][(/\ Called
        /\ call'.op \in RectOps
        /\ (call'.args[1].w = 0 \/ call'.args[1].h = 0))
       => out' = out]_vars

\* fill(rect) of a rectangle of zero width has returned, the sink set
C10_Witness ==
    /\ call.op = "fill_QRectF"
    /\ call.ts # NULL
    /\ call.args[1].w = 0
    /\ call.args[1].h > 0

\* circle(), and path, draw and fill of a centre and a radius
CircleOps == {"circle", "path_circle", "draw_circle", "fill_circle"}

\* C11: every circle operation with a radius of 0 or less appends nothing to
\* the sink; with a positive radius and a set sink it appends exactly one
\* command.
C11_CircleRadiusGuard ==
    [][(/\ Called
        /\ call'.op \in CircleOps)
       => IF call'.args[2] <= 0
          THEN out' = out
          ELSE ts # NULL =>
                  /\ Len(out'[ts]) = Len(out[ts]) + 1
                  /\ SubSeq(out'[ts], 1, Len(out[ts])) = out[ts]
                  /\ \A s \in Streams \ {ts} : out'[s] = out[s]]_vars

\* C12: after setStream(sink, p) the stored precision is max(0, p) and, with
\* a non-null sink, the sink formats real numbers with that same precision
\* in fixed notation.
C12_SetStreamPrecision ==
    call.op = "setStream" =>
        LET sink == call.args[1]
            p == call.args[2]
            clamped == IF p > 0 THEN p ELSE 0
        IN  /\ precision = clamped
            /\ sink # NULL =>
                  /\ rnPrecision[sink] = clamped
                  /\ rnNotation[sink] = "FixedNotation"

\* begin, end, beginScope and endScope
NestingOps == {"begin", "end", "beginScope", "endScope"}

\* the marker line of such a call
NestingMarker(c) ==
    LET brackets == IF c.op \in {"begin", "beginScope"} /\ c.args[1] # ""
                    THEN "[" \o c.args[1] \o "]" ELSE ""
    IN  CASE c.op = "begin" -> "\\begin{tikzpicture}" \o brackets \o "\n"
          [] c.op = "end" -> "\\end{tikzpicture}\n"
          [] c.op = "beginScope" -> "\\begin{scope}" \o brackets \o "\n"
          [] c.op = "endScope" -> "\\end{scope}\n"

\* C13: with a set sink, begin, end, beginScope and endScope are accepted in
\* every state, whatever was called before: the call appends its own marker
\* line behind what the sink holds and changes no field of the emitter.
C13_NestingNotTracked ==
    [][(/\ ts # NULL
        /\ Called
        /\ call'.op \in NestingOps)
       => /\ out' = [out EXCEPT ![ts] = Append(@, NestingMarker(call'))]
          /\ ts' = ts
          /\ colors' = colors
          /\ precision' = precision
          /\ fault' = FALSE]_vars

\* endScope and then end on a fresh sink, no begin before them
C13_Witness ==
    /\ ts # NULL
    /\ call.op = "end"
    /\ out[ts] = <<"\\end{scope}\n", "\\end{tikzpicture}\n">>

\* text holds sub as a contiguous part
Contains(text, sub) ==
    \E i \in 1..(Len(text) - Len(sub) + 1) : SubSeq(text, i, i + Len(sub) - 1) = sub

\* the operations that take options
OptionOps ==
    {"begin", "beginScope", "path_QPainterPath", "path_QRectF", "path_QRectF_writePath",
     "draw_QPainterPath", "draw_QRectF", "fill_QPainterPath", "fill_QRectF",
     "circle", "line_QPointF", "line_QVector"}

\* C14: what begin, beginScope and a drawing command write holds "[options]"
\* if and only if the options are not empty, and never "[]".
C14_BracketsIffOptions ==
    [][(/\ ts # NULL
        /\ Called
        /\ call'.op \in OptionOps
        /\ out' # out)
       => LET text == out'[ts][Len(out'[ts])]
              options == call'.args[Len(call'.args)]
          IN  /\ options # "" <=> Contains(text, "[" \o options \o "]")
              /\ options = "" => ~Contains(text, "[")
              /\ ~Contains(text, "[]")]_vars

\* begin("") has written its line
C14_Witness ==
    /\ call.op = "begin"
    /\ call.args[1] = ""
    /\ call.ts # NULL
    /\ out[call.ts] # <<>>
    /\ out[call.ts][Len(out[call.ts])] = "\\begin{tikzpicture}\n"

\* C15: with a set sink, comment(text) appends exactly "% ", the text and
\* "\n", for the empty text too.
C15_CommentLine ==
    [][(/\ ts # NULL
        /\ Called
        /\ call'.op = "comment")
       => out' = [out EXCEPT ![ts] = Append(@, "% " \o call'.args[1] \o "\n")]]_vars

\* comment("") has written "% \n"
C15_Witness ==
    /\ call.op = "comment"
    /\ call.args[1] = ""
    /\ call.ts # NULL
    /\ out[call.ts] # <<>>
    /\ out[call.ts][Len(out[call.ts])] = "% \n"

\* a coordinate in fixed notation with p fractional digits
FixedCoord(pt, p) ==
    "(" \o FormatFixed(pt.x, 10, p) \o ", " \o FormatFixed(pt.y, 10, p) \o ")"

\* C16: every coordinate of a compiled path is "(" x ", " y ")" with x and y
\* in fixed notation with exactly `precision` fractional digits, precision
\* the value last set through setStream.
C16_CoordinatesFixedPoint ==
    (/\ call.op \in {"path_QRectF", "draw_QRectF"}
     /\ call.ts # NULL
     /\ call.args[1].w > 0
     /\ call.args[1].h > 0)
    => /\ out[call.ts] # <<>>
       /\ out[call.ts][Len(out[call.ts])]
             = (IF call.op = "path_QRectF" THEN "\\path" ELSE "\\draw")
               \o (IF call.args[2] = "" THEN "" ELSE "[" \o call.args[2] \o "]")
               \o " " \o FixedCoord(RectTopLeft(call.args[1]), precision)
               \o " rectangle " \o FixedCoord(RectBottomRight(call.args[1]), precision)
               \o ";\n"

\* a step of the loop of toTikzPath: an element is left to take
LoopStep == compiler.pc = "loop" /\ compiler.i < Len(compiler.path) /\ compiler' # compiler

\* C17: the pending-control-point counter starts at 0 and is 0, 1 or 2 after
\* every element; CurveTo appends " .. controls " and the coordinate and
\* sets it to 1; CurveToData at 1 appends " and " and the coordinate and
\* sets it to 2, at 2 appends " .. " and the coordinate and sets it to 0, at
\* 0 appends nothing and leaves it at 0, and the loop goes on.
C17_ControlPointCounter ==
    [][/\ (compiler.pc = "call" /\ compiler'.pc = "loop")
            => compiler'.st.currentControlPoint = 0
       /\ LoopStep =>
            LET e == compiler.path[compiler.i + 1]
                coord == toCoord(e)
                before == compiler.st
                after == compiler'.st
            IN  /\ compiler'.pc = "loop"
                /\ compiler'.i = compiler.i + 1
                /\ after.currentControlPoint \in {0, 1, 2}
                /\ e.type = "CurveToElement" =>
                      /\ after.currentPath = before.currentPath \o " .. controls " \o coord
                      /\ after.currentControlPoint = 1
                /\ (e.type = "CurveToDataElement" /\ before.currentControlPoint = 1) =>
                      /\ after.currentPath = before.currentPath \o " and " \o coord
                      /\ after.currentControlPoint = 2
                /\ (e.type = "CurveToDataElement" /\ before.currentControlPoint = 2) =>
                      /\ after.currentPath = before.currentPath \o " .. " \o coord
                      /\ after.currentControlPoint = 0
                /\ (e.type = "CurveToDataElement" /\ before.currentControlPoint = 0) =>
                      after = before]_vars

\* a CurveToData at counter 0, then CurveTo and CurveToData at counter 1,
\* have been taken
C17_Witness ==
    /\ compiler.path = <<MoveTo(P0), CurveToData(P1), CurveTo(P1), CurveToData(P0)>>
    /\ compiler.pc = "loop"
    /\ compiler.i = 4
    /\ compiler.st.currentPath = "(0, 0) .. controls (1, 1.5) and (0, 0)"
    /\ compiler.st.currentControlPoint = 2

\* the control points a CurveTo of the sub-path open after n elements still
\* waits for: the counter, were it set to 0 by each MoveTo
RECURSIVE PendingInSubPath(_, _)
PendingInSubPath(path, n) ==
    IF n = 0 THEN 0
    ELSE LET c == PendingInSubPath(path, n - 1)
             t == path[n].type
         IN  CASE t = "MoveToElement" -> 0
               [] t = "LineToElement" -> c
               [] t = "CurveToElement" -> 1
               [] t = "CurveToDataElement" -> IF c = 1 THEN 2 ELSE 0

\* C18: a CurveToData that no unconsumed CurveTo of its own sub-path precedes
\* adds nothing to the compiled text, whatever state the sub-path before
\* ended in.
C18_CurveDataNeedsCurveTo ==
    [][(/\ LoopStep
        /\ compiler.path[compiler.i + 1].type = "CurveToDataElement"
        /\ PendingInSubPath(compiler.path, compiler.i) = 0)
       => /\ compiler'.st.currentPath = compiler.st.currentPath
          /\ compiler'.st.pathList = compiler.st.pathList]_vars

\* the n-th hex digit as registerColor writes it: q..z for 0..9, a..f kept
NameLetter(d) == SubSeq("qrstuvwxyzabcdef", d + 1, d + 1)

\* the two letters of a channel
NameLetters(channel) == NameLetter(channel \div 16) \o NameLetter(channel % 16)

\* text holds a decimal digit
HasDigit(text) ==
    \E i \in 1..Len(text), d \in 1..10 : SubSeq(text, i, i) = SubSeq("0123456789", d, d)

\* C19: for a colour that is none of the eight, registerColor returns "c"
\* and the six hex digits of the colour with 0..9 written q..z: seven
\* characters, no digit among them, and none of the eight basic names.
C19_NameShape ==
    \A i \in RegCalls :
        LET color == log[i].args[1]
            name == log[i].ret
        IN  BasicIndex(color) = 0 =>
                /\ name = "c" \o NameLetters(color.r) \o NameLetters(color.g)
                              \o NameLetters(color.b)
                /\ Len(name) = 7
                /\ ~HasDigit(name)
                /\ \A k \in 1..Len(BasicNames) : name # BasicNames[k]

\* registerColor(QColor(0, 1, 17)) has returned "cqqqrrr"
C19_Witness ==
    \E i \in RegCalls :
        /\ log[i].args[1] = QColor(0, 1, 17, 255)
        /\ log[i].ret = "cqqqrrr"

\* line(points), and path, draw and fill of a polygon
PolylineOps == {"line_QVector", "path_QPolygonF", "draw_QPolygonF", "fill_QPolygonF"}

\* C20: line(points) and path, draw and fill of a polygon append nothing to
\* the sink when given fewer than 2 points.
C20_FewPointsNoOutput ==
    [][(/\ Called
        /\ call'.op \in PolylineOps
        /\ Len(call'.args[1]) < 2)
       => out' = out]_vars

\* path(polygon) of one point has returned, the sink set and still empty
C20_Witness ==
    /\ call.op = "path_QPolygonF"
    /\ Len(call.args[1]) = 1
    /\ call.ts # NULL
    /\ out[call.ts] = <<>>

\* a polygon is marked closed when its last point repeats its first
MarkedClosed(points) == points[1] = points[Len(points)]

\* the points of a polygon joined by " -- ", the repeated closing point of a
\* closed one written " -- cycle"
PolygonText(points) ==
    LET shown == IF MarkedClosed(points) THEN SubSeq(points, 1, Len(points) - 1) ELSE points
    IN  Join([i \in DOMAIN shown |-> toCoord_prec(shown[i])], " -- ")
        \o (IF MarkedClosed(points) THEN " -- cycle" ELSE "")

\* the points of a polyline as line(points) streams them, joined by " -- "
PolylineText(points) ==
    Join([i \in DOMAIN points |->
            "(" \o StreamReal(points[i].x) \o ", " \o StreamReal(points[i].y) \o ")"], " -- ")

\* C21: the text of a polygon or polyline of two or more points lists all its
\* points in order, joined by " -- ", with " -- cycle" behind them exactly
\* when the polygon is marked closed.
C21_PolygonListsAllPoints ==
    (/\ call.op \in PolylineOps
     /\ call.ts # NULL
     /\ call.ts = ts
     /\ Len(call.args[1]) >= 2)
    => LET points == call.args[1]
           brackets == IF call.args[2] = "" THEN "" ELSE "[" \o call.args[2] \o "]"
           cmd == CASE call.op = "path_QPolygonF" -> "\\path"
                    [] call.op = "fill_QPolygonF" -> "\\fill"
                    [] OTHER -> "\\draw"
           text == IF call.op = "line_QVector" THEN PolylineText(points)
                   ELSE PolygonText(points)
       IN  /\ out[ts] # <<>>
           /\ out[ts][Len(out[ts])] = cmd \o brackets \o " " \o text \o ";\n"

IsLineElement(element) == element.type \in {"MoveToElement", "LineToElement"}

\* C23: in clip(const QPainterPath&) an element that is neither a MoveTo nor
\* a LineTo raises a message and is ignored otherwise: the clip command is
\* the one of the path without such elements, complete and terminated.
C23_ClipIgnoresCurves ==
    [][(/\ ts # NULL
        /\ Called
        /\ call'.op = "clip_QPainterPath_warn"
        /\ ~PathIsEmpty(call'.args[1]))
       => LET path == call'.args[1]
              known == SelectSeq(path, IsLineElement)
          IN  /\ Len(out'[MessageLog])
                    = Len(out[MessageLog]) + (Len(path) - Len(known))
              /\ out'[ts] = Append(out[ts], "\\clip " \o ClipLoop(known, Len(known))
                                              \o " -- cycle;\n")]_vars

\* the call that first returned the name of call i
FirstOfName(i) ==
    \A k \in RegCalls : k < i => log[k].ret # log[i].ret

\* C24: registerColor of a colour that is none of the eight, called with the
\* sink unset, returns the name and enters it into the registry; a later
\* registerColor of the same colour, the sink set by then, returns the same
\* name and writes nothing, so no sink holds a \definecolor line of the name.
C24_RegisteredWithoutDefinition ==
    \A i \in RegCalls :
        LET color == log[i].args[1]
            name == log[i].ret
        IN  (/\ BasicIndex(color) = 0
             /\ log[i].ts = NULL
             /\ FirstOfName(i))
            => /\ name \in colors
               /\ \A j \in RegCalls : log[j].args[1] = color => log[j].ret = name
               /\ \A s \in Streams : DefineColorLines(s, name, color) = {}

\* registerColor(QColor(100, 200, 0)) with the sink unset, then again with
\* the sink set, which is still empty
C24_Witness ==
    \E i \in RegCalls, j \in RegCalls :
        /\ i < j
        /\ log[i].args[1] = DocColor /\ log[j].args[1] = DocColor
        /\ log[i].ts = NULL
        /\ log[j].ts = "A"
        /\ ts = "A"
        /\ out["A"] = <<>>

\* C25: setStream leaves the registry alone: registerColor of a colour
\* first registered under one sink, called again under another sink, returns
\* the same name and writes no \definecolor line to the other sink.
C25_RegistryOutlivesSink ==
    \A i \in RegCalls, j \in RegCalls :
        LET color == log[i].args[1]
            name == log[i].ret
        IN  (/\ i < j
             /\ BasicIndex(color) = 0
             /\ FirstOfName(i)
             /\ log[j].args[1] = color
             /\ log[i].ts # NULL
             /\ log[j].ts # NULL
             /\ log[j].ts # log[i].ts)
            => /\ log[j].ret = name
               /\ name \in colors
               /\ DefineColorLines(log[j].ts, name, color) = {}

\* registerColor(QColor(100, 200, 0)) under sink A, which got the line, and
\* again under sink B, which is empty
C25_Witness ==
    \E i \in RegCalls, j \in RegCalls :
        /\ i < j
        /\ log[i].args[1] = DocColor /\ log[j].args[1] = DocColor
        /\ log[i].ts = "A"
        /\ log[j].ts = "B"
        /\ Len(out["A"]) = 1
        /\ out["B"] = <<>>

\* C26: the registry only grows: a step changes it only by a registerColor of
\* a colour that is none of the eight, which adds the name it returns and
\* nothing else; every other operation leaves it as it is, and only
\* setStream changes the sink and the precision.
C26_RegistryOnlyGrows ==
    [][/\ colors \subseteq colors'
       /\ colors' # colors =>
             /\ call'.op = "registerColor"
             /\ BasicIndex(call'.args[1]) = 0
             /\ colors' = colors \cup {call'.ret}
       /\ (ts' # ts \/ precision' # precision) => call'.op = "setStream"]_vars

\* a name is in the registry, and begin, an operation that is neither
\* registerColor nor setStream, has been called since
C26_Witness ==
    /\ colors = {TranslitName(DocColor)}
    /\ call.op = "begin"
    /\ call.n = 3

=============================================================================
